---- MODULE Spec2Model ----
(***************************************************************************)
(* Model of fastapi/fastapi.py: the bootstrap sequence init_app, route     *)
(* discovery (register_blueprints), the request hooks, the context-        *)
(* restoring celery task base (ContextTask) and the SQL statement          *)
(* instrumentation callbacks.                                              *)
(*                                                                         *)
(* Library behaviour the module relies on is modelled as the library       *)
(* implements it (Flask 0.x/1.x, Celery, SQLAlchemy, Python's with and     *)
(* exception propagation) and is mapped to the call site in fastapi.py.    *)
(***************************************************************************)
EXTENDS Integers, Sequences, FiniteSets, TLC

VARIABLES
  \* ---- bootstrap (init_app) ----
  env_mode,              \* os.environ['FASTAPI_MODE'], or "unset"
  settings,              \* what the profiles set and the host allows: LOG_LEVEL,
                         \* ENABLE_SENTRY, and whether the log directory can be made
  app_config,            \* profile loaded into app.config, "none" before
  pc,                    \* index of the next statement of init_app; 0 = left by an exception
  fault,                 \* index of the step that raised, 0 = none
  trace,                 \* the steps of init_app executed so far, in order
  handlers,              \* app.logger.handlers
  handler_levels,        \* the level set on each handler of app.logger.handlers
  log,                   \* records emitted through app.logger
  error_handlers,        \* app.error_handler_spec: set of <<kind, handler>>
  before_request_funcs,  \* app.before_request_funcs[None]
  after_request_funcs,   \* app.after_request_funcs[None]
  inited,                \* extensions bound to app so far
  celery_Task,           \* celery.Task: "Task" or "ContextTask"
  modules,               \* what find_modules('fastapi.api') yields: per module its bp or NoBp
  blueprints,            \* app.blueprints: the blueprint objects registered, keyed by name
  url_map,               \* url prefixes bound in app.url_map, in binding order
  imported,              \* modules imported by register_blueprints
  \* ---- request dispatch ----
  observed,              \* the last dispatched request: hooks at dispatch and callables run
  response,              \* the last request that ended abnormally: failure kind and response
  \* ---- deferred units (celery tasks) ----
  unit_state,            \* per unit: "new", "queued", "running", "done"
  seen,                  \* per unit: the config value its scheduling request read
  read,                  \* per unit: the config value the unit body read
  ctx_seen,              \* per unit: owner of the app context its body ran in
  outcome,               \* per unit: "none", "ok", "raised"
  ran_by,                \* per unit: the worker that ran it, and whether its request had completed
  req_done,              \* per unit: its scheduling request has completed
  wpc,                   \* per worker: "idle", "entered" (inside with), "ran" (body left)
  wunit,                 \* per worker: the unit it is calling, 0 if none
  stacks,                \* the app-context stacks, one per context-local key
  stack0,                \* per worker: its stack when the current/last call began
  \* ---- statement instrumentation ----
  now,                   \* int(time.time() * 1000)
  spc,                   \* per statement: "new", "started", "executed", "done"
  sql_params,            \* per statement: shape of parameters and whether they render
  query_start_ts,        \* per statement: context.query_start_ts, -1 when unset
  cursor_outcome,        \* per statement: what the cursor produced
  result,                \* per statement: what the caller of execute got
  sql_log                \* the debug records logged by after_cursor_execute

bootvars == <<env_mode, settings, app_config, pc, fault, trace, handlers,
              handler_levels, log, error_handlers,
              before_request_funcs, after_request_funcs, inited, celery_Task,
              modules, blueprints, url_map, imported>>
reqvars == <<observed, response>>
taskvars == <<unit_state, seen, read, ctx_seen, outcome, ran_by, req_done, wpc, wunit, stacks,
              stack0>>
sqlvars == <<now, spc, sql_params, query_start_ts, cursor_outcome, result, sql_log>>
runvars == <<reqvars, taskvars, sqlvars>>
vars == <<bootvars, runvars>>

\* ------------------------------------------------------------------ bounds
NumModules == 2
MaxHooks == 2
NumUnits == 2
NumWorkers == 2
NumStmts == 2
MaxTime == 2
MaxCalls == 2

\* ------------------------------------------------------------------ helpers
IsPrefix(s, t) == Len(s) <= Len(t) /\ \A i \in 1..Len(s) : s[i] = t[i]

Range(s) == { s[i] : i \in 1..Len(s) }

\* --------------------------------------------------------------- configuration
\* fastapi.config.config: the closed set of profiles.
Profiles == {"dev", "prod", "test"}

EnvModes == {"unset", "bogus"} \cup Profiles

\* os.environ.get('FASTAPI_MODE', 'dev')
run_mode(env) == IF env = "unset" THEN "dev" ELSE env

select_profile_default(mode) == IF mode \in Profiles THEN mode ELSE "dev"

\* config[run_mode]: a KeyError for a name that is not a profile.
select_profile(mode) == IF mode \in Profiles THEN mode ELSE "KeyError"

\* ------------------------------------------------------------------ init_app
init_app_routes_first ==
  << "init_config", "init_logger", "init_error_handlers", "init_hooks", "init_db",
     "init_redis", "init_sentry", "init_limiter", "init_cache",
     "register_blueprints", "init_celery", "register_signal_handlers" >>

init_app_db_first ==
  << "init_config", "init_db", "init_logger", "init_error_handlers", "init_hooks",
     "init_redis", "init_sentry", "init_celery", "init_limiter", "init_cache",
     "register_blueprints", "register_signal_handlers" >>

init_app_celery_last ==
  << "init_config", "init_logger", "init_error_handlers", "init_hooks", "init_db",
     "init_redis", "init_sentry", "init_limiter", "init_cache",
     "register_blueprints", "register_signal_handlers", "init_celery" >>

init_app_discover_first ==
  << "init_config", "init_logger", "init_error_handlers", "init_hooks",
     "register_blueprints", "init_db", "init_redis", "init_sentry", "init_celery",
     "init_limiter", "init_cache", "register_signal_handlers" >>

\* The body of init_app, statement by statement.
init_app ==
  << "init_config", "init_logger", "init_error_handlers", "init_hooks", "init_db",
     "init_redis", "init_sentry", "init_celery", "init_limiter", "init_cache",
     "register_blueprints", "register_signal_handlers" >>

Returned == Len(init_app) + 1

AfterRaiseSwallowed(k) == k + 1

\* No statement of init_app is inside a try: an exception raised by statement k
\* leaves init_app (and the module import at line 174).
AfterRaise(k) == 0

\* Control is at the call of `step` in init_app.
Runs(step) == pc \in 1..Len(init_app) /\ init_app[pc] = step

Return == pc' = pc + 1 /\ fault' = fault /\ trace' = Append(trace, init_app[pc])

Raise == pc' = AfterRaise(pc) /\ fault' = pc /\ trace' = Append(trace, init_app[pc])

\* --------------------------------------------------------------- blueprints
NoBp == [id |-> 0, name |-> "", prefix |-> ""]

\* The Blueprint objects modules may expose as `bp`; id is the object's identity.
BpObjs ==
  { [id |-> 1, name |-> "a", prefix |-> "/a"],
    [id |-> 2, name |-> "b", prefix |-> "/a"],
    [id |-> 3, name |-> "b", prefix |-> "/b"],
    [id |-> 4, name |-> "a", prefix |-> "/b"] }

\* app.register_blueprint(bp) on the registry state st: Flask keys app.blueprints by
\* blueprint NAME and asserts that a name already taken belongs to the same object;
\* it then binds the blueprint's rules (its url prefix) into the url map. The url
\* prefix is not compared with the prefixes already bound.
register_blueprint(st, bp) ==
  IF \E b \in st.blueprints : b.name = bp.name /\ b.id # bp.id
  THEN [st EXCEPT !.raised = TRUE]
  ELSE [st EXCEPT !.blueprints = @ \cup {bp},
                  !.url_map = Append(@, bp.prefix)]

RECURSIVE discover_stop_at_skip(_, _, _)
discover_stop_at_skip(i, st, failAt) ==
  IF i > Len(modules) THEN st
  ELSE IF i = failAt THEN [st EXCEPT !.raised = TRUE]
  ELSE LET st1 == [st EXCEPT !.imported = Append(@, i)]
       IN IF modules[i] = NoBp
          THEN st1
          ELSE LET st2 == register_blueprint(st1, modules[i])
               IN IF st2.raised THEN st2 ELSE discover_stop_at_skip(i + 1, st2, failAt)

\* The loop of register_blueprints from module i on; failAt is the module whose
\* import raises (0: none).
RECURSIVE discover(_, _, _)
discover(i, st, failAt) ==
  IF i > Len(modules) THEN st
  ELSE IF i = failAt THEN [st EXCEPT !.raised = TRUE]
  ELSE LET st1 == [st EXCEPT !.imported = Append(@, i)]
       IN IF modules[i] = NoBp
          THEN discover(i + 1, st1, failAt)
          ELSE LET st2 == register_blueprint(st1, modules[i])
               IN IF st2.raised THEN st2 ELSE discover(i + 1, st2, failAt)

\* ------------------------------------------------------------------ steps
init_config ==
  /\ Runs("init_config")
  /\ LET p == select_profile(run_mode(env_mode))
     IN IF p = "KeyError"
        THEN Raise /\ UNCHANGED app_config
        ELSE Return /\ app_config' = p
  /\ UNCHANGED <<env_mode, settings, handlers, handler_levels, log, error_handlers,
                 before_request_funcs,
                 after_request_funcs, inited, celery_Task, modules, blueprints,
                 url_map, imported, runvars>>

\* LEVELS, lines 41-45.
LEVELS ==
  [ debug |-> 10, info |-> 20, warning |-> 30, error |-> 40, critical |-> 50 ]

\* The LOG_LEVEL strings a profile may hold.
LogLevelNames == {"debug", "INFO", "verbose"}

\* str.lower() on those strings.
lower(name) ==
  CASE name = "debug" -> "debug"
    [] name = "INFO" -> "info"
    [] name = "verbose" -> "verbose"

\* LEVELS.get(app.config['LOG_LEVEL'].lower(), 'info'), line 52: the number of a
\* recognised name, and otherwise the STRING 'info'. A value is an int (num) or a
\* str (str).
log_level(name) ==
  IF lower(name) \in DOMAIN LEVELS
  THEN [int |-> TRUE, num |-> LEVELS[lower(name)], str |-> ""]
  ELSE [int |-> FALSE, num |-> 0, str |-> "info"]

\* logging's name-to-level table: upper-case names only.
nameToLevel ==
  [ DEBUG |-> 10, INFO |-> 20, WARNING |-> 30, ERROR |-> 40, CRITICAL |-> 50 ]

\* Handler.setLevel(level) (logging._checkLevel): an int is taken as it is; a string
\* must be a key of the name-to-level table, or ValueError is raised (here -1).
setLevel(level) ==
  IF level.int THEN level.num
  ELSE IF level.str \in DOMAIN nameToLevel THEN nameToLevel[level.str] ELSE -1

init_logger ==
  /\ Runs("init_logger")
  /\ LET lvl == setLevel(log_level(settings.LOG_LEVEL))
     IN IF settings.log_dir_ok /\ lvl # -1
        THEN /\ Return
             /\ handlers' = handlers \o <<"stream_handler", "rotate_handler">>
             /\ handler_levels' = handler_levels \o <<lvl, lvl>>
             /\ log' = Append(log, "logger")
        ELSE Raise /\ UNCHANGED <<handlers, handler_levels, log>>
  /\ UNCHANGED <<env_mode, settings, app_config, error_handlers, before_request_funcs,
                 after_request_funcs, inited, celery_Task, modules, blueprints,
                 url_map, imported, runvars>>

registered_error_handlers_no_429 ==
  { <<"404", "error_404_handler">>, <<"APIError", "error_handler">> }

\* The three app.register_error_handler calls, lines 111-113.
registered_error_handlers ==
  { <<"404", "error_404_handler">>, <<"429", "error_429_handler">>,
    <<"APIError", "error_handler">> }

init_error_handlers ==
  /\ Runs("init_error_handlers")
  /\ Return
  /\ error_handlers' = error_handlers \cup registered_error_handlers
  /\ UNCHANGED <<env_mode, settings, app_config, handlers, handler_levels, log,
                 before_request_funcs,
                 after_request_funcs, inited, celery_Task, modules, blueprints,
                 url_map, imported, runvars>>

init_hooks ==
  /\ Runs("init_hooks")
  /\ Return
  /\ before_request_funcs' = Append(before_request_funcs, "before_request_handler")
  /\ after_request_funcs' = Append(after_request_funcs, "after_request_handler")
  /\ UNCHANGED <<env_mode, settings, app_config, handlers, handler_levels, log,
                 error_handlers, inited,
                 celery_Task, modules, blueprints, url_map, imported, runvars>>

\* A step that binds one extension to app and may log: ext.init_app(app) either
\* completes or raises.
BindExtension(step, ext, msg) ==
  /\ Runs(step)
  /\ \E ok \in BOOLEAN :
       IF ok
       THEN /\ Return
            /\ inited' = inited \cup {ext}
            /\ log' = IF msg = "" THEN log ELSE Append(log, msg)
       ELSE Raise /\ UNCHANGED <<inited, log>>
  /\ UNCHANGED <<env_mode, settings, app_config, handlers, handler_levels,
                 error_handlers, before_request_funcs,
                 after_request_funcs, celery_Task, modules, blueprints, url_map,
                 imported, runvars>>

init_db == BindExtension("init_db", "db", "db")

init_redis == BindExtension("init_redis", "redis", "redis")

\* app.config.get('ENABLE_SENTRY', False), line 122.
enable_sentry == settings.ENABLE_SENTRY

\* Lines 123-124 are `if not enable_sentry: pass`: the branch does nothing and
\* control falls through to Sentry(app, dsn=...) and the info record either way.
init_sentry ==
  /\ IF ~enable_sentry THEN TRUE ELSE TRUE
  /\ BindExtension("init_sentry", "sentry", "sentry")

init_limiter == BindExtension("init_limiter", "limiter", "")

init_cache == BindExtension("init_cache", "cache", "")

init_celery ==
  /\ Runs("init_celery")
  /\ Return
  /\ celery_Task' = "ContextTask"
  /\ log' = Append(log, "celery")
  /\ UNCHANGED <<env_mode, settings, app_config, handlers, handler_levels,
                 error_handlers, before_request_funcs,
                 after_request_funcs, inited, modules, blueprints, url_map, imported,
                 runvars>>

register_blueprints ==
  /\ Runs("register_blueprints")
  /\ \E failAt \in 0..Len(modules) :
       LET st == discover(1, [blueprints |-> blueprints, url_map |-> url_map,
                              imported |-> imported, raised |-> FALSE], failAt)
       IN /\ blueprints' = st.blueprints
          /\ url_map' = st.url_map
          /\ imported' = st.imported
          /\ IF st.raised THEN Raise ELSE Return
  /\ UNCHANGED <<env_mode, settings, app_config, handlers, handler_levels, log,
                 error_handlers,
                 before_request_funcs, after_request_funcs, inited, celery_Task,
                 modules, runvars>>

register_signal_handlers == BindExtension("register_signal_handlers", "signals", "")

\* ================================================================ request hooks
ExtraBefore == {"A", "B"}

ExtraAfter == {"C", "D"}

\* app.before_request(f): appends f to the before-request functions.
before_request(f) ==
  /\ pc = Returned
  /\ Len(before_request_funcs) <= MaxHooks
  /\ before_request_funcs' = Append(before_request_funcs, f)
  /\ UNCHANGED <<env_mode, settings, app_config, pc, fault, trace, handlers,
                 handler_levels, log, error_handlers,
                 after_request_funcs, inited, celery_Task, modules, blueprints,
                 url_map, imported, runvars>>

\* app.after_request(f): appends f to the after-request functions.
after_request(f) ==
  /\ pc = Returned
  /\ Len(after_request_funcs) <= MaxHooks
  /\ after_request_funcs' = Append(after_request_funcs, f)
  /\ UNCHANGED <<env_mode, settings, app_config, pc, fault, trace, handlers,
                 handler_levels, log, error_handlers,
                 before_request_funcs, inited, celery_Task, modules, blueprints,
                 url_map, imported, runvars>>

register_before == \E f \in ExtraBefore : before_request(f)

register_after == \E f \in ExtraAfter : after_request(f)

Reverse(s) == [i \in 1..Len(s) |-> s[Len(s) + 1 - i]]

after_order_registration(funcs) == funcs

\* The order in which Flask's process_response calls the functions registered with
\* app.after_request: the reverse of their registration.
after_order(funcs) == Reverse(funcs)

dispatch_rediscovering ==
  /\ pc = Returned
  /\ Len(url_map) <= NumModules
  /\ observed' = [observed EXCEPT !.ran = <<"handler">>]
  /\ blueprints' = blueprints \cup {[id |-> 1, name |-> "a", prefix |-> "/a"]}
  /\ url_map' = Append(url_map, "/a")
  /\ UNCHANGED <<env_mode, settings, app_config, pc, fault, trace, handlers,
                 handler_levels, log, error_handlers, before_request_funcs,
                 after_request_funcs, inited, celery_Task, modules, imported,
                 response, taskvars, sqlvars>>

\* One request through Flask's full_dispatch_request with the hooks as registered:
\* the before functions in order, the first to return a response (stop) ending
\* preprocessing and skipping the view; then the view; then the after functions.
dispatch ==
  /\ pc = Returned
  /\ \E stop \in 0..Len(before_request_funcs) :
       observed' =
         [ before |-> before_request_funcs,
           after  |-> after_request_funcs,
           stop   |-> stop,
           ran    |-> IF stop = 0
                      THEN before_request_funcs \o <<"handler">>
                             \o after_order(after_request_funcs)
                      ELSE SubSeq(before_request_funcs, 1, stop)
                             \o after_order(after_request_funcs) ]
  /\ UNCHANGED <<bootvars, response, taskvars, sqlvars>>

\* ---------------------------------------------------------------- error mapping
\* Failures a request may end with: the mapped ones, an HTTP error without a
\* handler (405) and an exception that is neither.
FailureKinds == {"NotFound", "RateLimited", "APIError", "MethodNotAllowed", "ValueError"}

\* The HTTP status code of a werkzeug HTTPException, "" for any other exception.
http_code(kind) ==
  CASE kind = "NotFound" -> "404"
    [] kind = "RateLimited" -> "429"
    [] kind = "MethodNotAllowed" -> "405"
    [] OTHER -> ""

status_of(code) ==
  CASE code = "404" -> 404
    [] code = "429" -> 429
    [] code = "405" -> 405

\* Flask looks a handler up by status code for an HTTPException and by exception
\* class otherwise.
find_error_handler(kind) ==
  LET key == IF http_code(kind) # "" THEN http_code(kind) ELSE kind
      found == { eh \in error_handlers : eh[1] = key }
  IN IF found = {} THEN "none" ELSE (CHOOSE eh \in found : TRUE)[2]

\* What the handlers of fastapi.utils.error_handlers answer.
handler_response(h) ==
  CASE h = "error_404_handler" -> [status |-> 404, body |-> "resource not found"]
    [] h = "error_429_handler" -> [status |-> 429, body |-> "too many requests"]
    [] h = "error_handler" -> [status |-> 400, body |-> "kind and message"]

\* A request ends with failure `kind`: the registered handler answers if there is
\* one; an HTTPException without a handler is its own response; anything else
\* becomes the 500 of Flask's handle_exception.
handle_failure(kind) ==
  /\ pc = Returned
  /\ LET h == find_error_handler(kind)
     IN response' =
          IF h # "none"
          THEN [kind |-> kind, status |-> handler_response(h).status,
                body |-> handler_response(h).body, by |-> h]
          ELSE IF http_code(kind) # ""
          THEN [kind |-> kind, status |-> status_of(http_code(kind)),
                body |-> "http default", by |-> "HTTPException"]
          ELSE [kind |-> kind, status |-> 500, body |-> "internal server error",
                by |-> "InternalServerError"]
  /\ UNCHANGED <<bootvars, observed, taskvars, sqlvars>>

\* ================================================================ deferred units
Units == 1..NumUnits

Workers == 1..NumWorkers

SharedKey(w) == 1

\* The app-context stack is context-local (werkzeug LocalStack): each worker thread
\* that enters app.app_context() pushes on a stack of its own.
LocalKey(w) == w

Top(stack) == stack[Len(stack)]

ctx_enter_none(stack, u) == stack

\* __enter__ of app.app_context(): push a new AppContext of app, made for this call.
ctx_enter(stack, u) == Append(stack, [app |-> "app", owner |-> u])

ctx_exit_leaky(stack, how) ==
  IF how = "raised" \/ stack = << >> THEN stack ELSE SubSeq(stack, 1, Len(stack) - 1)

\* __exit__ of the with statement: runs however the body was left, and pops.
ctx_exit(stack, how) ==
  IF stack = << >> THEN stack ELSE SubSeq(stack, 1, Len(stack) - 1)

\* current_app.config[...] as read on worker w: needs an app context on w's stack.
current_config(w) ==
  IF stacks[LocalKey(w)] = << >> THEN "RuntimeError" ELSE app_config

\* A request handler reads a config value and schedules unit u (task.delay()).
schedule(u) ==
  /\ pc = Returned
  /\ unit_state[u] = "new"
  /\ unit_state' = [unit_state EXCEPT ![u] = "queued"]
  /\ seen' = [seen EXCEPT ![u] = app_config]
  /\ UNCHANGED <<bootvars, reqvars, sqlvars, read, ctx_seen, outcome, ran_by, req_done,
                 wpc, wunit, stacks, stack0>>

\* The scheduling request returns; it does not wait for the unit.
request_complete(u) ==
  /\ unit_state[u] # "new"
  /\ ~ req_done[u]
  /\ req_done' = [req_done EXCEPT ![u] = TRUE]
  /\ UNCHANGED <<bootvars, reqvars, sqlvars, unit_state, seen, read, ctx_seen, outcome,
                 ran_by, wpc, wunit, stacks, stack0>>

\* ContextTask.__call__, line 138: worker w takes a queued unit and enters the with.
ContextTask_enter(w, u) ==
  /\ celery_Task = "ContextTask"
  /\ wpc[w] = "idle"
  /\ unit_state[u] = "queued"
  /\ unit_state' = [unit_state EXCEPT ![u] = "running"]
  /\ wpc' = [wpc EXCEPT ![w] = "entered"]
  /\ wunit' = [wunit EXCEPT ![w] = u]
  /\ stack0' = [stack0 EXCEPT ![w] = stacks[LocalKey(w)]]
  /\ stacks' = [stacks EXCEPT ![LocalKey(w)] = ctx_enter(@, u)]
  /\ UNCHANGED <<bootvars, reqvars, sqlvars, seen, read, ctx_seen, outcome, ran_by,
                 req_done>>

\* ContextTask.__call__, line 139: TaskBase.__call__ runs the unit body, which reads
\* the config value through the ambient context and returns or raises.
ContextTask_run(w) ==
  /\ wpc[w] = "entered"
  /\ \E how \in {"ok", "raised"} :
       outcome' = [outcome EXCEPT ![wunit[w]] = how]
  /\ read' = [read EXCEPT ![wunit[w]] = current_config(w)]
  /\ ctx_seen' = [ctx_seen EXCEPT ![wunit[w]] =
                    IF stacks[LocalKey(w)] = << >> THEN -1
                    ELSE Top(stacks[LocalKey(w)]).owner]
  /\ ran_by' = [ran_by EXCEPT ![wunit[w]] = [w |-> w, late |-> req_done[wunit[w]]]]
  /\ wpc' = [wpc EXCEPT ![w] = "ran"]
  /\ UNCHANGED <<bootvars, reqvars, sqlvars, unit_state, seen, req_done, wunit, stacks,
                 stack0>>

\* ContextTask.__call__ leaves the with statement.
ContextTask_exit(w) ==
  /\ wpc[w] = "ran"
  /\ stacks' = [stacks EXCEPT ![LocalKey(w)] = ctx_exit(@, outcome[wunit[w]])]
  /\ unit_state' = [unit_state EXCEPT ![wunit[w]] = "done"]
  /\ wpc' = [wpc EXCEPT ![w] = "idle"]
  /\ wunit' = [wunit EXCEPT ![w] = 0]
  /\ UNCHANGED <<bootvars, reqvars, sqlvars, seen, read, ctx_seen, outcome, ran_by,
                 req_done, stack0>>

\* ======================================================= statement instrumentation
Stmts == 1..NumStmts

ParamShapes == {"dict", "tuple", "list"}

\* time.time() moves on.
tick ==
  /\ now < MaxTime
  /\ now' = now + 1
  /\ UNCHANGED <<bootvars, reqvars, taskvars, spc, sql_params, query_start_ts,
                 cursor_outcome, result, sql_log>>

before_cursor_execute(s) ==
  /\ spc[s] = "new"
  /\ query_start_ts' = [query_start_ts EXCEPT ![s] = now]
  /\ spc' = [spc EXCEPT ![s] = "started"]
  /\ UNCHANGED <<bootvars, reqvars, taskvars, now, sql_params, cursor_outcome, result,
                 sql_log>>

\* The DBAPI cursor runs the statement. SQLAlchemy fires after_cursor_execute only
\* when the cursor returned; a DBAPI error goes to the caller.
cursor_execute(s) ==
  /\ spc[s] = "started"
  /\ \E o \in {"rows", "DBAPIError"} :
       /\ cursor_outcome' = [cursor_outcome EXCEPT ![s] = o]
       /\ IF o = "rows"
          THEN spc' = [spc EXCEPT ![s] = "executed"] /\ UNCHANGED result
          ELSE spc' = [spc EXCEPT ![s] = "done"] /\ result' = [result EXCEPT ![s] = o]
  /\ UNCHANGED <<bootvars, reqvars, taskvars, now, sql_params, query_start_ts, sql_log>>

\* Lines 81-86: the parameters are rendered with str.format / str for a dict or a
\* tuple; any other shape renders as ''. Rendering a value may raise.
render_raises(p) == p.shape \in {"dict", "tuple"} /\ ~ p.renders

\* The statement text handed to the callbacks, a character at a time.
statement(s) == IF s = 1 THEN <<"a", "\n", "b", "\n">> ELSE <<"c">>

\* The bound parameters of a statement: name/value pairs for a dict, the values in
\* order for a tuple or a list (a list is what executemany and dialects whose
\* execute_sequence_format is list hand to the callback).
parameters(p) ==
  IF p.shape = "dict" THEN << <<"id", "7">>, <<"n", "x">> >> ELSE << "7", "x" >>

\* statement.replace('\n', ' '), line 88.
replace_newlines(t) == [i \in 1..Len(t) |-> IF t[i] = "\n" THEN " " ELSE t[i]]

\* Lines 83-84: str_params += '{}:{}, '.format(name, val) for each item.
RECURSIVE format_items(_)
format_items(items) ==
  IF items = << >> THEN << >>
  ELSE <<items[1][1], ":", items[1][2], ", ">> \o format_items(Tail(items))

\* Line 86: ', '.join([str(item) for item in parameters]).
RECURSIVE join(_)
join(items) ==
  IF items = << >> THEN << >>
  ELSE IF Len(items) = 1 THEN <<items[1]>>
  ELSE <<items[1], ", ">> \o join(Tail(items))

\* str_params, lines 81-86, as the pieces of the string: '' unless the parameters
\* are a dict or a tuple.
rendered(p) ==
  IF p.shape = "dict" THEN format_items(parameters(p))
  ELSE IF p.shape = "tuple" THEN join(parameters(p))
  ELSE << >>

\* No statement of the callback is inside a try: what rendering raises leaves the
\* callback and, through SQLAlchemy's event dispatch, execute().
after_cursor_execute(s) ==
  /\ spc[s] = "executed"
  /\ spc' = [spc EXCEPT ![s] = "done"]
  /\ IF render_raises(sql_params[s])
     THEN /\ result' = [result EXCEPT ![s] = "RenderError"]
          /\ UNCHANGED sql_log
     ELSE /\ result' = [result EXCEPT ![s] = cursor_outcome[s]]
          /\ sql_log' = Append(sql_log,
                               [stmt |-> s, cost |-> now - query_start_ts[s],
                                at |-> now, text |-> replace_newlines(statement(s)),
                                params |-> rendered(sql_params[s])])
  /\ UNCHANGED <<bootvars, reqvars, taskvars, now, sql_params, query_start_ts,
                 cursor_outcome>>

\* ================================================================ specifications
\* Nothing dispatched, scheduled or executed yet.
ReqIdle ==
  /\ observed = [before |-> << >>, after |-> << >>, stop |-> 0, ran |-> << >>]
  /\ response = [kind |-> "none", status |-> 0, body |-> "", by |-> ""]

TaskIdle ==
  /\ unit_state = [u \in Units |-> "new"]
  /\ seen = [u \in Units |-> "none"]
  /\ read = [u \in Units |-> "none"]
  /\ ctx_seen = [u \in Units |-> 0]
  /\ outcome = [u \in Units |-> "none"]
  /\ ran_by = [u \in Units |-> [w |-> 0, late |-> FALSE]]
  /\ req_done = [u \in Units |-> FALSE]
  /\ wpc = [w \in Workers |-> "idle"]
  /\ wunit = [w \in Workers |-> 0]
  /\ stack0 = stacks

SqlIdle ==
  /\ now = 0
  /\ spc = [s \in Stmts |-> "new"]
  /\ query_start_ts = [s \in Stmts |-> -1]
  /\ cursor_outcome = [s \in Stmts |-> "none"]
  /\ result = [s \in Stmts |-> "none"]
  /\ sql_log = << >>

NoStacks == stacks = [w \in Workers |-> << >>]

NoParams == sql_params = [s \in Stmts |-> [shape |-> "tuple", renders |-> TRUE]]

\* The configuration values the steps read, and what the host allows.
Settings ==
  [ LOG_LEVEL : LogLevelNames, ENABLE_SENTRY : BOOLEAN, log_dir_ok : BOOLEAN ]

\* The state when the module's import reaches line 174: app, db, celery, limiter and
\* cache constructed, nothing bound; the environment and the fastapi.api namespace
\* are the inputs.
Init ==
  /\ env_mode \in EnvModes
  /\ settings \in Settings
  /\ modules \in [1..NumModules -> BpObjs \cup {NoBp}]
  /\ app_config = "none"
  /\ pc = 1
  /\ fault = 0
  /\ trace = << >>
  /\ handlers = << >>
  /\ handler_levels = << >>
  /\ log = << >>
  /\ error_handlers = {}
  /\ before_request_funcs = << >>
  /\ after_request_funcs = << >>
  /\ inited = {}
  /\ celery_Task = "Task"
  /\ blueprints = {}
  /\ url_map = << >>
  /\ imported = << >>
  /\ ReqIdle /\ NoStacks /\ TaskIdle /\ NoParams /\ SqlIdle

Next ==
  \/ init_config
  \/ init_logger
  \/ init_error_handlers
  \/ init_hooks
  \/ init_db
  \/ init_redis
  \/ init_sentry
  \/ init_celery
  \/ init_limiter
  \/ init_cache
  \/ register_blueprints
  \/ register_signal_handlers

Spec == Init /\ [][Next]_vars

\* The state init_app leaves when every step completed (here with a fastapi.api
\* namespace of modules without bp).
Booted ==
  /\ env_mode \in Profiles \cup {"unset"}
  /\ settings = [LOG_LEVEL |-> "debug", ENABLE_SENTRY |-> TRUE, log_dir_ok |-> TRUE]
  /\ handler_levels = <<10, 10>>
  /\ modules = [i \in 1..NumModules |-> NoBp]
  /\ app_config = run_mode(env_mode)
  /\ pc = Returned
  /\ fault = 0
  /\ trace = init_app
  /\ handlers = <<"stream_handler", "rotate_handler">>
  /\ log = <<"logger", "db", "redis", "sentry", "celery">>
  /\ error_handlers = registered_error_handlers
  /\ before_request_funcs = <<"before_request_handler">>
  /\ after_request_funcs = <<"after_request_handler">>
  /\ inited = {"db", "redis", "sentry", "limiter", "cache", "signals"}
  /\ celery_Task = "ContextTask"
  /\ blueprints = {}
  /\ url_map = << >>
  /\ imported = [i \in 1..NumModules |-> i]

\* A caller invokes init_app() again after it has returned: the body runs again from
\* its first statement on the same module-level objects. init_app keeps no record
\* of having run.
init_app_again ==
  /\ pc = Returned
  /\ Len(trace) < MaxCalls * Len(init_app)
  /\ pc' = 1
  /\ UNCHANGED <<env_mode, settings, app_config, fault, trace, handlers,
                 handler_levels, log, error_handlers, before_request_funcs,
                 after_request_funcs, inited, celery_Task, modules, blueprints,
                 url_map, imported, runvars>>

\* The import-time call of init_app and further calls of it.
NextReinit == Next \/ init_app_again

SpecReinit == Init /\ [][NextReinit]_vars

\* The whole life of the process: the import-time bootstrap and, once it has
\* returned, requests, failing requests, a deferred unit and a statement. A
\* statement can also run while the modules of fastapi.api and fastapi.signals are
\* imported: the engine exists from init_db on and the cursor callbacks are
\* registered when the module is loaded (lines 71 and 77).
InitServe == Init /\ env_mode \in {"dev", "bogus"}

StatementsPossible ==
  /\ "db" \in inited
  /\ Runs("register_blueprints") \/ Runs("register_signal_handlers") \/ pc = Returned

NextServe ==
  \/ Next
  \/ dispatch
  \/ \E kind \in FailureKinds : handle_failure(kind)
  \/ schedule(1)
  \/ request_complete(1)
  \/ ContextTask_enter(1, 1)
  \/ ContextTask_run(1)
  \/ ContextTask_exit(1)
  \/ StatementsPossible /\ before_cursor_execute(1)
  \/ StatementsPossible /\ cursor_execute(1)
  \/ StatementsPossible /\ after_cursor_execute(1)

SpecServe == InitServe /\ [][NextServe]_vars

\* Requests: hooks are registered (init_hooks, then further app-level hooks) and
\* requests dispatched.
InitRequest == Booted /\ ReqIdle /\ NoStacks /\ TaskIdle /\ NoParams /\ SqlIdle

NextRequest ==
  \/ register_before
  \/ register_after
  \/ dispatch
  \/ \E kind \in FailureKinds : handle_failure(kind)

SpecRequest == InitRequest /\ [][NextRequest]_vars

\* Deferred units: requests schedule units, workers call them concurrently. A pool
\* worker starts without an app context; worker 1 may instead be a thread that
\* calls the task in place from inside an app context of its own.
InitTask ==
  /\ Booted /\ ReqIdle /\ NoParams /\ SqlIdle
  /\ stacks \in [Workers -> { << >>, << [app |-> "app", owner |-> 0] >> }]
  /\ \A w \in Workers : w # 1 => stacks[w] = << >>
  /\ TaskIdle

NextTask ==
  \/ \E u \in Units : schedule(u)
  \/ \E u \in Units : request_complete(u)
  \/ \E w \in Workers, u \in Units : ContextTask_enter(w, u)
  \/ \E w \in Workers : ContextTask_run(w)
  \/ \E w \in Workers : ContextTask_exit(w)

SpecTask == InitTask /\ [][NextTask]_vars

\* Statements: each goes through before_cursor_execute, the cursor and
\* after_cursor_execute, interleaved with the others.
InitSql ==
  /\ Booted /\ ReqIdle /\ NoStacks /\ TaskIdle
  /\ sql_params \in [Stmts -> [shape : ParamShapes, renders : BOOLEAN]]
  /\ \A s \in Stmts : sql_params[s].shape = "list" => sql_params[s].renders
  /\ SqlIdle

NextSql ==
  \/ tick
  \/ \E s \in Stmts : before_cursor_execute(s)
  \/ \E s \in Stmts : cursor_execute(s)
  \/ \E s \in Stmts : after_cursor_execute(s)

SpecSql == InitSql /\ [][NextSql]_vars

\* ============================================================== claims: bootstrap

Pos(step) == CHOOSE i \in 1..Len(trace) : trace[i] = step

Ran(step) == step \in Range(trace)

SupportSteps == {"init_redis", "init_sentry", "init_limiter", "init_cache"}

\* C1 as stated: the steps run in the order configuration, logger, error-mapper and
\* request-lifecycle registration, persistence, support services, route discovery and
\* only then task wiring: task wiring (init_celery) never runs before route discovery
\* (register_blueprints) has completed, and no support-service step runs after it.
C1_Original ==
  /\ Ran("init_celery") => Ran("register_blueprints")
  /\ \A s \in SupportSteps :
       (Ran(s) /\ Ran("init_celery")) => Pos(s) < Pos("init_celery")

\* C1 as amended: in every run of init_app the steps executed so far are a prefix of
\* configuration, logger, error handlers, hooks, persistence, redis client,
\* error-reporting client, task wiring, rate limiter, cache, route discovery,
\* signal handlers; so task wiring runs before the rate limiter, the cache and route
\* discovery, and route discovery before signal-handler registration only.
C1_BootOrder ==
  IsPrefix(trace,
    << "init_config", "init_logger", "init_error_handlers", "init_hooks", "init_db",
       "init_redis", "init_sentry", "init_celery", "init_limiter", "init_cache",
       "register_blueprints", "register_signal_handlers" >>)

C1_Witness ==
  /\ pc = Returned
  /\ Len(trace) = 12
  /\ Pos("init_celery") < Pos("init_limiter")
  /\ Pos("init_celery") < Pos("register_blueprints")

\* C2: when FASTAPI_MODE names no profile, init_app fails inside init_config before
\* any other step runs: no log handler is added, no diagnostic is emitted and no
\* later step takes effect.
C2_UnknownModeFailsFirst ==
  (env_mode \notin Profiles \cup {"unset"} /\ trace # << >>) =>
     /\ trace = << "init_config" >>
     /\ fault = 1
     /\ pc # Returned
     /\ app_config = "none"
     /\ handlers = << >>
     /\ log = << >>
     /\ error_handlers = {}
     /\ before_request_funcs = << >>
     /\ after_request_funcs = << >>
     /\ inited = {}
     /\ celery_Task = "Task"
     /\ blueprints = {}
     /\ url_map = << >>
     /\ imported = << >>

C2_Witness == env_mode = "bogus" /\ fault = 1 /\ trace = << "init_config" >>

\* C3: bootstrap is fail-fast: once step k has failed, exactly the k steps up to and
\* including k have ever executed (no step after k runs, no step catches the
\* failure and carries on) and init_app has not completed and never does.
C3_FailFast ==
  fault # 0 =>
     /\ Len(trace) = fault
     /\ pc # Returned
     /\ ~ (\E step \in Range(init_app) : Runs(step))

C3_Witness ==
  /\ fault = 6
  /\ trace[6] = "init_redis"
  /\ "db" \in inited
  /\ "redis" \notin inited

\* C4 as stated: a second routable module under an already bound path prefix is
\* rejected, so the registered path prefixes are always duplicate-free, and two
\* modules with distinct prefixes are both registered.
C4_PrefixesUnique ==
  /\ \A i, j \in 1..Len(url_map) : url_map[i] = url_map[j] => i = j
  /\ (/\ pc > 11
      /\ \A i \in 1..Len(modules) : modules[i] # NoBp
      /\ \A i, j \in 1..Len(modules) :
            i # j => modules[i].prefix # modules[j].prefix)
     => \A i \in 1..Len(modules) : modules[i] \in blueprints

\* ================================================================ claims: runtime

\* C5 as stated: for one dispatched request the before-hooks run in registration
\* order, then the handler, then the after-hooks in registration order (no
\* reversal).
C5_Original ==
  (observed.ran # << >> /\ observed.stop = 0) =>
     observed.ran = observed.before \o <<"handler">> \o observed.after

\* C5 as amended: for one dispatched request in which no before-hook answers the
\* request itself, the before-hooks run in registration order, then the handler,
\* then the after-hooks in REVERSE registration order.
C5_AfterHooksReversed ==
  (observed.ran # << >> /\ observed.stop = 0) =>
     LET nb == Len(observed.before)
         na == Len(observed.after)
     IN /\ Len(observed.ran) = nb + 1 + na
        /\ \A i \in 1..nb : observed.ran[i] = observed.before[i]
        /\ observed.ran[nb + 1] = "handler"
        /\ \A i \in 1..na : observed.ran[nb + 1 + i] = observed.after[na + 1 - i]

C5_Witness ==
  /\ observed.stop = 0
  /\ observed.before = <<"before_request_handler", "A", "B">>
  /\ observed.after = <<"after_request_handler", "C", "D">>
  /\ observed.ran = <<"before_request_handler", "A", "B", "handler",
                      "D", "C", "after_request_handler">>

C7_ContextRestored ==
  \A w \in Workers :
     /\ wpc[w] = "idle" => stacks[w] = stack0[w]
     /\ wpc[w] # "idle" =>
          stacks[w] = Append(stack0[w], [app |-> "app", owner |-> wunit[w]])

C7_Witness ==
  \E u \in Units :
     /\ unit_state[u] = "done"
     /\ outcome[u] = "raised"
     /\ wpc[ran_by[u].w] = "idle"
     /\ stack0[ran_by[u].w] # << >>
     /\ stacks[ran_by[u].w] = stack0[ran_by[u].w]

\* C8: with workers calling units concurrently, the context visible to a running
\* unit is always the one entered for that unit, never one entered for a unit of
\* another request.
C8_OwnContext ==
  /\ \A w \in Workers :
        wpc[w] = "entered" =>
           /\ stacks[w] # << >>
           /\ Top(stacks[w]).owner = wunit[w]
  /\ \A u \in Units : outcome[u] # "none" => ctx_seen[u] = u

C8_Witness ==
  \E w1, w2 \in Workers :
     /\ w1 # w2
     /\ wpc[w1] = "ran" /\ wpc[w2] = "ran"
     /\ wunit[w1] # wunit[w2]
     /\ ctx_seen[wunit[w1]] = wunit[w1]
     /\ ctx_seen[wunit[w2]] = wunit[w2]

EventsOf(s) == { i \in 1..Len(sql_log) : sql_log[i].stmt = s }

Executed(s) == spc[s] = "done" /\ cursor_outcome[s] = "rows"

\* C9 as stated: N statements run concurrently (each executed by its cursor) emit
\* exactly N log events, one per statement, each with a non-negative cost equal to
\* the time at after_cursor_execute minus the start recorded for that statement.
C9_OneEventPerStatement ==
  /\ \A s \in Stmts :
        Executed(s) =>
           /\ Cardinality(EventsOf(s)) = 1
           /\ \A i \in EventsOf(s) :
                 /\ sql_log[i].cost >= 0
                 /\ sql_log[i].cost = sql_log[i].at - query_start_ts[s]
  /\ Len(sql_log) = Cardinality({ s \in Stmts : Executed(s) })

\* What does hold of the instrumentation: a statement has at most one event, and
\* an event's cost is the time from that statement's own start, never negative.
SqlEventsSound ==
  \A s \in Stmts :
     /\ Cardinality(EventsOf(s)) <= 1
     /\ \A i \in EventsOf(s) :
           /\ sql_log[i].cost >= 0
           /\ sql_log[i].cost = sql_log[i].at - query_start_ts[s]

\* C10 as stated: a fault raised inside the instrumentation callbacks is swallowed:
\* the caller of a statement gets what the cursor produced, its rows or its error.
C10_InstrumentationSilent ==
  \A s \in Stmts : spc[s] = "done" => result[s] = cursor_outcome[s]

\* ================================================================ claims: C11-C20

Count(step) == Cardinality({ i \in 1..Len(trace) : trace[i] = step })

\* C11 as stated: over the process lifetime, the import-time call and any further
\* call of init_app included, no bootstrap step takes effect more than once: the
\* log handlers, the error handlers and the request hooks are each registered once.
C11_BootstrapOnce ==
  /\ \A step \in Range(init_app) : Count(step) <= 1
  /\ Len(handlers) <= 2
  /\ Len(before_request_funcs) <= 1
  /\ Len(after_request_funcs) <= 1

DocumentedResponse(r) ==
  /\ r.kind = "NotFound" =>
        r.status = 404 /\ r.body = "resource not found" /\ r.by = "error_404_handler"
  /\ r.kind = "RateLimited" =>
        r.status = 429 /\ r.body = "too many requests" /\ r.by = "error_429_handler"
  /\ r.kind = "APIError" =>
        r.status = 400 /\ r.body = "kind and message" /\ r.by = "error_handler"

MappedKinds == {"NotFound", "RateLimited", "APIError"}

\* C12 as stated: after bootstrap NotFound, RateLimited and ApplicationError each
\* yield their documented response, and a failure of any kind that is not mapped
\* yields the generic 500 response; exactly one response is made per failing request.
C12_Original ==
  response.kind # "none" =>
     /\ DocumentedResponse(response)
     /\ response.kind \notin MappedKinds =>
           response.status = 500 /\ response.by = "InternalServerError"

\* C12 as amended: after bootstrap NotFound, RateLimited and ApplicationError each
\* yield their documented response; an unmapped failure that is not an HTTP error
\* yields the generic 500 response, and an unmapped HTTP error (such as 405) yields
\* the default response of its own status; no failure is dropped, and exactly one
\* of these answers each failing request.
C12_ErrorMapping ==
  response.kind # "none" =>
     /\ DocumentedResponse(response)
     /\ response.kind = "ValueError" =>
           response.status = 500 /\ response.by = "InternalServerError"
     /\ response.kind = "MethodNotAllowed" =>
           response.status = 405 /\ response.by = "HTTPException"
     /\ response.by # ""

C12_Witness ==
  /\ response.kind = "RateLimited"
  /\ response.status = 429
  /\ response.by = "error_429_handler"

\* C13: no diagnostic is emitted through the application logger before init_logger
\* has completed: whenever a bootstrap step or a statement callback has logged, the
\* logger's two handlers are installed and the first record is init_logger's own.
C13_LoggerFirst ==
  (log # << >> \/ sql_log # << >>) =>
     /\ Len(handlers) >= 2
     /\ Ran("init_logger")
     /\ log # << >>
     /\ log[1] = "logger"

C13_Witness ==
  /\ pc < Returned
  /\ sql_log # << >>
  /\ log = <<"logger", "db", "redis", "sentry", "celery">>
  /\ handlers = <<"stream_handler", "rotate_handler">>

\* C18: the route table is mutated only during bootstrap: discovery runs at most
\* once, and once init_app has returned no step of a request, failing request,
\* statement callback or task changes the registered blueprints or the url map.
C18_RoutesFrozen ==
  /\ [](Count("register_blueprints") <= 1)
  /\ [][pc = Returned => (blueprints' = blueprints /\ url_map' = url_map)]_vars

C18_Witness ==
  /\ pc = Returned
  /\ url_map = <<"/a", "/b">>
  /\ observed.ran # << >>
  /\ response.kind # "none"
  /\ unit_state[1] = "done"
  /\ spc[1] = "done"

\* C14: persistence is initialised before route discovery: no module of
\* fastapi.api has been imported unless init_db has completed, in every run of
\* init_app, failing ones included.
C14_DbBeforeDiscovery ==
  imported # << >> => ("db" \in inited /\ Ran("init_db"))

C14_Witness ==
  /\ Len(imported) = NumModules
  /\ "db" \in inited
  /\ fault = 0

\* The modules of the namespace that expose bp, in scan order.
WithBp == SelectSeq([i \in 1..NumModules |-> i], LAMBDA i : modules[i] # NoBp)

DiscoveryCompleted ==
  /\ Ran("register_blueprints")
  /\ fault = 0

\* C15: after discovery completes without fault the registered blueprints are
\* exactly the bp objects of the modules that expose one, one registration per such
\* module in scan order, and every module was scanned: a module without bp neither
\* raises nor stops the scan.
C15_ExactlyBpModules ==
  DiscoveryCompleted =>
     /\ blueprints = { modules[i] : i \in Range(WithBp) }
     /\ Len(url_map) = Len(WithBp)
     /\ \A k \in 1..Len(WithBp) : url_map[k] = modules[WithBp[k]].prefix
     /\ imported = [i \in 1..NumModules |-> i]

C15_Witness ==
  /\ DiscoveryCompleted
  /\ modules[1] = NoBp
  /\ modules[NumModules] # NoBp
  /\ blueprints = {modules[NumModules]}

\* C16 as stated: with ENABLE_SENTRY false, init_sentry neither constructs the
\* Sentry client nor logs that it was initialised.
C16_SentrySkipped ==
  ~enable_sentry => ("sentry" \notin inited /\ "sentry" \notin Range(log))

\* C19: ContextTask is installed as celery.Task before any module of fastapi.api is
\* imported and before the signal handlers are registered.
C19_TaskBaseFirst ==
  ( \/ imported # << >>
    \/ Ran("register_blueprints")
    \/ Ran("register_signal_handlers")
    \/ "signals" \in inited ) => (celery_Task = "ContextTask" /\ Ran("init_celery"))

C19_Witness ==
  /\ imported # << >>
  /\ "signals" \in inited
  /\ celery_Task = "ContextTask"

\* The numeric level the claim expects for a LOG_LEVEL string: the level of the
\* lower-cased name, and the info level for a name that is not recognised.
expected_level(name) ==
  IF lower(name) \in DOMAIN LEVELS THEN LEVELS[lower(name)] ELSE LEVELS["info"]

\* C20 as stated: where the log directory is usable, init_logger completes for
\* every LOG_LEVEL string and leaves both handlers at the expected numeric level.
C20_LoggerAnyLevel ==
  (Ran("init_logger") /\ settings.log_dir_ok) =>
     /\ fault # Pos("init_logger")
     /\ handler_levels = << expected_level(settings.LOG_LEVEL),
                            expected_level(settings.LOG_LEVEL) >>

\* C17 as stated: every logged line has a whole-millisecond cost, the statement
\* text with every newline replaced by a space, and a parameter rendering that
\* holds every bound parameter: each name and value of keyed parameters, and each
\* value in order of positional parameters, whatever sequence holds them.
C17_LogLineComplete ==
  \A i \in 1..Len(sql_log) :
     LET e == sql_log[i]
         p == sql_params[e.stmt]
     IN /\ e.cost \in Nat
        /\ Len(e.text) = Len(statement(e.stmt))
        /\ \A k \in 1..Len(e.text) :
              e.text[k] = (IF statement(e.stmt)[k] = "\n" THEN " " ELSE statement(e.stmt)[k])
        /\ IF p.shape = "dict"
           THEN \A k \in 1..Len(parameters(p)) :
                   /\ parameters(p)[k][1] \in Range(e.params)
                   /\ parameters(p)[k][2] \in Range(e.params)
           ELSE SelectSeq(e.params, LAMBDA t : t # ", ") = parameters(p)

====
